---------------------------- MODULE Spec2Model ----------------------------
(***************************************************************************)
(* A model of the maintenance_records dashboard front end:                 *)
(*   - RecordDetailModal: calculateWarrantyStatus, the client history      *)
(*     fetch (fetchRelatedRecords) and the switch to a related record      *)
(*     (handleViewRelatedRecord);                                          *)
(*   - SalesSummary: the chart series builders prepareMonthlyData,         *)
(*     prepareZoneData, prepareLeadSourceData and prepareSoldByData.       *)
(* Each component has its own specification (SpecWarranty, SpecSummary,    *)
(* SpecModal); the variables of the other components stay at their         *)
(* initial values.                                                         *)
(***************************************************************************)
EXTENDS Integers, Sequences, FiniteSets, Bags, TLC

VARIABLES
  \* RecordDetailModal (component state, lines 14-17)
  record,           \* the `record` prop
  isOpen,           \* the `isOpen` prop
  currentRecord,    \* useState(record)
  relatedRecords,   \* useState([]): the ids of the history rows shown
  loading,          \* useState(false)
  historyOf,        \* ghost: id of the record whose history request filled relatedRecords (0: none)
  historyFetches,   \* GET /records/history/... requests awaiting their response
  detailFetches,    \* GET /records/{id} requests awaiting their response
  editSignals,      \* the ids onEdit was called with, in order
  closeSignals,     \* number of onClose calls
  rejections,       \* number of rejected promises of fetchRelatedRecords and handleViewRelatedRecord
  \* calculateWarrantyStatus
  today,            \* the clock: what `new Date()` reads
  tz,               \* local time minus UTC, in ticks
  warranty,         \* the value of the last calculateWarrantyStatus call
  \* SalesSummary
  summary,          \* useState(null): the summary payload
  monthlyData,      \* the value of the last prepareMonthlyData call
  zoneData,         \* ... prepareZoneData
  leadSourceData,   \* ... prepareLeadSourceData
  soldByData,       \* ... prepareSoldByData
  filters,          \* useState({}): the filters of the summary
  summaryLoading,   \* useState(true): the loading flag of SalesSummary
  summaryFetches,   \* GET /sales/summary requests awaiting their response
  issued,           \* ghost: number of summary requests sent so far
  latestAnswered,   \* ghost: the request sent for the current filters was answered with data
  lastAlert,        \* the text of the last alert ("": none)
  \* AuthProvider and the API client
  user,             \* useState(null): the in-memory user
  isLoading,        \* useState(true)
  storedToken,      \* localStorage item 'token' ("": no item)
  storedRole,       \* localStorage item 'role' ("": no item)
  defaultAuthorization, \* api.defaults.headers.common['Authorization']
  requests,         \* requests of the API client awaiting their response
  loginResult,      \* how the last login() call settled
  apiResult,        \* how the promise of the last answered call other than login settled
  navigating        \* window.location.href was assigned '/login'; the page load is pending

modalVars == <<record, isOpen, currentRecord, relatedRecords, loading, historyOf,
               historyFetches, detailFetches, editSignals, closeSignals, rejections>>
warrantyVars == <<today, tz, warranty>>
fetchVars == <<filters, summaryLoading, summaryFetches, issued, latestAnswered, lastAlert>>
summaryVars == <<summary, monthlyData, zoneData, leadSourceData, soldByData, fetchVars>>
authVars == <<user, isLoading, storedToken, storedRole, defaultAuthorization, requests,
              loginResult, apiResult, navigating>>
vars == <<modalVars, warrantyVars, summaryVars, authVars>>


(***************************************************************************)
(* Time.  A timestamp is a number of ticks since 1970-01-01T00:00Z, where  *)
(* a day has TicksPerDay ticks (the code counts milliseconds).             *)
(***************************************************************************)
TicksPerDay == 2
\* `now` ranges over delivery + 365 days +- WindowDays days.
WindowDays == 36
\* The years a delivery date is drawn from (2024 is a leap year).
DeliveryYears == 2023..2024
\* The months and the days of the month a delivery date is drawn from.
DeliveryMonths == {1, 2, 3, 7, 12}
DeliveryDays == {1, 28, 29, 31}
\* Local time zones: UTC-12h, UTC, UTC+12h at TicksPerDay = 2.
TzOffsets == {-1, 0, 1}

\* Math.ceil(a / b) for b > 0 (-0 and 0 are the same number here: -0 < 0 is false in JS).
Ceil(a, b) == -((-a) \div b)

Abs(x) == IF x < 0 THEN -x ELSE x

\* The calendar of Date (ECMAScript's DaysInYear, DayFromYear, MakeDay).
IsLeap(y) == (y % 4 = 0 /\ y % 100 # 0) \/ y % 400 = 0

DayFromYear(y) ==
  365 * (y - 1970) + ((y - 1969) \div 4) - ((y - 1901) \div 100) + ((y - 1601) \div 400)

DaysInMonth(y, m) ==
  IF m = 2 THEN (IF IsLeap(y) THEN 29 ELSE 28)
  ELSE IF m \in {4, 6, 9, 11} THEN 30 ELSE 31

RECURSIVE DaysBeforeMonth(_, _)
DaysBeforeMonth(y, m) ==
  IF m = 1 THEN 0 ELSE DaysBeforeMonth(y, m - 1) + DaysInMonth(y, m - 1)

\* MakeDay(year, month, date): a date past the month's end runs into the next month.
MakeDay(y, m, d) == DayFromYear(y) + DaysBeforeMonth(y, m) + d - 1

YearFromDay(n) ==
  CHOOSE y \in 2022..2027 : DayFromYear(y) <= n /\ n < DayFromYear(y + 1)

MonthFromDay(n) ==
  LET y == YearFromDay(n)
      k == n - DayFromYear(y)
  IN CHOOSE m \in 1..12 : DaysBeforeMonth(y, m) <= k /\ k < DaysBeforeMonth(y, m) + DaysInMonth(y, m)

DateFromDay(n) ==
  LET y == YearFromDay(n)
  IN n - DayFromYear(y) - DaysBeforeMonth(y, MonthFromDay(n)) + 1

\* Date values: a time value, or Invalid Date (a NaN time value).
DateOf(t) == [kind |-> "date", time |-> t]
InvalidDate == [kind |-> "invalid", time |-> 0]
NullDate == [kind |-> "null", time |-> 0]

\* Numbers: an integer, or NaN.
Num(v) == [nan |-> FALSE, v |-> v]
NaN == [nan |-> TRUE, v |-> 0]
\* a < b and a <= b of JS: false when either side is NaN.
Lt(a, b) == ~a.nan /\ ~b.nan /\ a.v < b.v
Le(a, b) == ~a.nan /\ ~b.nan /\ a.v <= b.v

\* date_of_delivery of a record: absent (null, undefined or ''), a string Date
\* cannot parse, or a string Date parses to the time value `time`.
AbsentDelivery == [kind |-> "absent", time |-> 0]
BadDelivery == [kind |-> "unparseable", time |-> 0]
Delivery(t) == [kind |-> "date", time |-> t]

\* new Date(currentRecord.date_of_delivery)
ParseDate(s) == IF s.kind = "date" THEN DateOf(s.time) ELSE InvalidDate

\* The expiry as delivery + 365 days, whatever the calendar.
AddDays365(date, offset) ==
  IF date.kind # "date" THEN InvalidDate ELSE DateOf(date.time + 365 * TicksPerDay)

\* expiry.setFullYear(expiry.getFullYear() + 1): in local time the year goes up
\* by one, the month, the day of the month and the time of day stay.
AddOneYear(date, offset) ==
  IF date.kind # "date" THEN InvalidDate
  ELSE LET local == date.time + offset
           day == local \div TicksPerDay
           tod == local % TicksPerDay
           newDay == MakeDay(YearFromDay(day) + 1, MonthFromDay(day), DateFromDay(day))
       IN DateOf(newDay * TicksPerDay + tod - offset)

\* Math.ceil((expiry.getTime() - today.getTime()) / (1000 * 60 * 60 * 24))
DaysRemaining(expiry, now) ==
  IF expiry.kind # "date" THEN NaN ELSE Num(Ceil(expiry.time - now, TicksPerDay))

\* if (daysRemaining <= 30): the "expiring soon" threshold
ExpiringSoonDays == 30

\* Classify with `daysRemaining < 30` for `daysRemaining <= 30`.
ClassifyBoundaryOff(expiry, daysRemaining) ==
  IF Lt(daysRemaining, Num(0))
    THEN [status |-> "out_of_warranty", expiry |-> expiry,
          daysRemaining |-> Num(Abs(daysRemaining.v))]
  ELSE IF Lt(daysRemaining, Num(ExpiringSoonDays))
    THEN [status |-> "expiring_soon", expiry |-> expiry, daysRemaining |-> daysRemaining]
  ELSE [status |-> "in_warranty", expiry |-> expiry, daysRemaining |-> daysRemaining]

\* The three returns of lines 72-74.
Classify(expiry, daysRemaining) ==
  IF Lt(daysRemaining, Num(0))
    THEN [status |-> "out_of_warranty", expiry |-> expiry,
          daysRemaining |-> IF daysRemaining.nan THEN NaN ELSE Num(Abs(daysRemaining.v))]
  ELSE IF Le(daysRemaining, Num(ExpiringSoonDays))
    THEN [status |-> "expiring_soon", expiry |-> expiry, daysRemaining |-> daysRemaining]
  ELSE [status |-> "in_warranty", expiry |-> expiry, daysRemaining |-> daysRemaining]

calculateWarrantyStatus(rec, now, offset) ==
  IF rec.date_of_delivery.kind = "absent"
    THEN [status |-> "out_of_warranty", expiry |-> NullDate, daysRemaining |-> Num(0)]
  ELSE LET delivery == ParseDate(rec.date_of_delivery)
           expiry == AddOneYear(delivery, offset)
       IN Classify(expiry, DaysRemaining(expiry, now))


(***************************************************************************)
(* RecordDetailModal: the records of the backend, the history fetch and    *)
(* the switch to a related record.                                         *)
(***************************************************************************)
\* The backend holds the records 1..MaxRecords.
MaxRecords == 4
\* At most MaxInFlight history requests and MaxInFlight detail requests await a response.
MaxInFlight == 2
\* At most MaxSignals onEdit/onClose fallbacks are recorded.
MaxSignals == 1

RecordIds == 1..MaxRecords

\* The client phone of a record: '' for every third record, and records whose
\* ids differ by three belong to the same client.
PhoneOf(id) == IF id % 3 = 0 THEN "" ELSE IF id % 3 = 1 THEN "555-1234" ELSE "555-9999"

\* A fixed delivery date for the records of the backend (2023-06-15T00:00Z).
SomeDelivery == Delivery(MakeDay(2023, 6, 15) * TicksPerDay)

RecordOf(id) == [id |-> id, client_phone |-> PhoneOf(id), date_of_delivery |-> SomeDelivery]

Records == {RecordOf(id) : id \in RecordIds}

\* GET /records/history/{phone}?exclude_id={id}&limit=10 -> the ids of the other
\* records of that client, at most 10 of them.
HistoryLimit == 10

RECURSIVE IdsWithPhone(_, _, _)
IdsWithPhone(phone, exclude_id, from) ==
  IF from > MaxRecords THEN <<>>
  ELSE (IF PhoneOf(from) = phone /\ from # exclude_id THEN <<from>> ELSE <<>>)
         \o IdsWithPhone(phone, exclude_id, from + 1)

History(phone, exclude_id) ==
  LET all == IdsWithPhone(phone, exclude_id, 1)
  IN SubSeq(all, 1, IF Len(all) < HistoryLimit THEN Len(all) ELSE HistoryLimit)

\* The part of the component state the history code writes.
HistoryState ==
  [relatedRecords |-> relatedRecords, loading |-> loading,
   historyOf |-> historyOf, historyFetches |-> historyFetches]

\* fetchRelatedRecords of the render that shows `cur` (lines 31-39: up to the await).
fetchRelatedRecords(cur, s) ==
  IF cur.client_phone = ""
    THEN [s EXCEPT !.relatedRecords = <<>>, !.historyOf = 0]
    ELSE [s EXCEPT !.loading = TRUE,
                   !.historyFetches = @ (+) SetToBag({[phone |-> cur.client_phone, id |-> cur.id]})]

\* The effect, had it tested isOpen only and had fetchRelatedRecords no early return.
HistoryEffectNoPhoneCheck(open, cur, s) ==
  IF open
    THEN [s EXCEPT !.loading = TRUE,
                   !.historyFetches = @ (+) SetToBag({[phone |-> cur.client_phone, id |-> cur.id]})]
    ELSE [s EXCEPT !.relatedRecords = <<>>, !.historyOf = 0]

\* The body of the effect of lines 23-29.
HistoryEffect(open, cur, s) ==
  IF open /\ cur.client_phone # ""
    THEN fetchRelatedRecords(cur, s)
    ELSE [s EXCEPT !.relatedRecords = <<>>, !.historyOf = 0]

\* The effects of one commit. The render that sees the new props still holds the
\* old currentRecord: the effect of lines 19-21 schedules setCurrentRecord(record)
\* when `record` changed, and the effect of lines 23-29 runs when isOpen changed.
\* The render that follows holds the new currentRecord, and the effect of lines
\* 23-29 runs again when client_phone or id changed.
AfterCommit(oldOpen, newOpen, oldCur, newCur, s) ==
  LET s1 == IF newOpen # oldOpen THEN HistoryEffect(newOpen, oldCur, s) ELSE s
  IN IF newCur.client_phone # oldCur.client_phone \/ newCur.id # oldCur.id
       THEN HistoryEffect(newOpen, newCur, s1)
       ELSE s1

InstallHistory(s) ==
  /\ relatedRecords' = s.relatedRecords
  /\ loading' = s.loading
  /\ historyOf' = s.historyOf
  /\ historyFetches' = s.historyFetches
  /\ BagCardinality(s.historyFetches) <= MaxInFlight

\* The parent renders the modal with new props (lines 14, 19-29).
SetProps(r, open) ==
  /\ <<r, open>> # <<record, isOpen>>
  /\ record' = r
  /\ isOpen' = open
  /\ currentRecord' = IF r # record THEN r ELSE currentRecord
  /\ InstallHistory(AfterCommit(isOpen, open, currentRecord, currentRecord', HistoryState))
  /\ UNCHANGED <<detailFetches, editSignals, closeSignals, rejections>>

\* The response of a history request arrives (lines 40, 45).
HistoryResponse(req) ==
  /\ BagIn(req, historyFetches)
  /\ historyFetches' = historyFetches (-) SetToBag({req})
  /\ relatedRecords' = History(req.phone, req.id)
  /\ historyOf' = req.id
  /\ loading' = FALSE
  /\ UNCHANGED <<record, isOpen, currentRecord, detailFetches, editSignals, closeSignals,
                 rejections>>

\* A failure without the finally block of lines 44-46.
HistoryFailureKeepsLoading(req) ==
  /\ BagIn(req, historyFetches)
  /\ historyFetches' = historyFetches (-) SetToBag({req})
  /\ relatedRecords' = <<>>
  /\ historyOf' = 0
  /\ UNCHANGED <<record, isOpen, currentRecord, loading, detailFetches, editSignals,
                 closeSignals, rejections>>

\* A history request fails (lines 41-45): the catch block handles the error and
\* the promise of fetchRelatedRecords fulfils.
HistoryFailure(req) ==
  /\ BagIn(req, historyFetches)
  /\ historyFetches' = historyFetches (-) SetToBag({req})
  /\ relatedRecords' = <<>>
  /\ historyOf' = 0
  /\ loading' = FALSE
  /\ UNCHANGED <<record, isOpen, currentRecord, detailFetches, editSignals, closeSignals,
                 rejections>>

\* A click on a row of the history list (lines 295-309) calls
\* handleViewRelatedRecord, which sends GET /records/{id} (line 52).
ClickRelated(id) ==
  /\ isOpen
  /\ currentRecord.client_phone # ""
  /\ ~loading
  /\ \E i \in 1..Len(relatedRecords) : relatedRecords[i] = id
  /\ BagCardinality(detailFetches) < MaxInFlight
  /\ Len(editSignals) + BagCardinality(detailFetches) < MaxSignals
  /\ detailFetches' = detailFetches (+) SetToBag({id})
  /\ UNCHANGED <<record, isOpen, currentRecord, relatedRecords, loading, historyOf,
                 historyFetches, editSignals, closeSignals, rejections>>

\* The answer handled without line 54.
DetailResponseKeepsHistory(id) ==
  /\ BagIn(id, detailFetches)
  /\ detailFetches' = detailFetches (-) SetToBag({id})
  /\ currentRecord' = RecordOf(id)
  /\ InstallHistory(AfterCommit(isOpen, isOpen, currentRecord, currentRecord', HistoryState))
  /\ UNCHANGED <<record, isOpen, editSignals, closeSignals, rejections>>

\* GET /records/{id} answers (lines 53-54), and the render that follows runs the
\* effect of lines 23-29.
DetailResponse(id) ==
  /\ BagIn(id, detailFetches)
  /\ detailFetches' = detailFetches (-) SetToBag({id})
  /\ currentRecord' = RecordOf(id)
  /\ InstallHistory(AfterCommit(isOpen, isOpen, currentRecord, currentRecord',
                                [HistoryState EXCEPT !.relatedRecords = <<>>, !.historyOf = 0]))
  /\ UNCHANGED <<record, isOpen, editSignals, closeSignals, rejections>>

\* The failure, had line 58 passed the id of the record on display.
DetailFailureSignalsCurrent(id) ==
  /\ BagIn(id, detailFetches)
  /\ detailFetches' = detailFetches (-) SetToBag({id})
  /\ editSignals' = Append(editSignals, currentRecord.id)
  /\ closeSignals' = closeSignals + 1
  /\ UNCHANGED <<record, isOpen, currentRecord, relatedRecords, loading, historyOf,
                 historyFetches, rejections>>

\* GET /records/{id} fails (lines 55-59): the catch block calls onEdit with the id
\* of the clicked row, then onClose, and the promise fulfils.
DetailFailure(id) ==
  /\ BagIn(id, detailFetches)
  /\ detailFetches' = detailFetches (-) SetToBag({id})
  /\ editSignals' = Append(editSignals, id)
  /\ closeSignals' = closeSignals + 1
  /\ UNCHANGED <<record, isOpen, currentRecord, relatedRecords, loading, historyOf,
                 historyFetches, rejections>>

\* The modal after its first render and effects (lines 14-29).
Mounted(r, open) ==
  LET s == HistoryEffect(open, r, [relatedRecords |-> <<>>, loading |-> FALSE,
                                   historyOf |-> 0, historyFetches |-> EmptyBag])
  IN /\ record = r
     /\ isOpen = open
     /\ currentRecord = r
     /\ relatedRecords = s.relatedRecords
     /\ loading = s.loading
     /\ historyOf = s.historyOf
     /\ historyFetches = s.historyFetches
     /\ detailFetches = EmptyBag
     /\ editSignals = <<>>
     /\ closeSignals = 0
     /\ rejections = 0

\* The modal mounted closed.
ModalIdle(r) == Mounted(r, FALSE)

(***************************************************************************)
(* SalesSummary: the payload and the chart series builders.                *)
(***************************************************************************)
\* A field of the payload: missing (undefined), or present with a value.
\* Every value is a sequence: a series is a sequence of items, a mapping is
\* the sequence of its entries in Object.entries order.
Missing == [present |-> FALSE, v |-> <<>>]
Some(v) == [present |-> TRUE, v |-> v]

\* The value of a builder: the rows it returned, or a TypeError it threw.
NotCalled == [state |-> "not_called", rows |-> <<>>]
Returned(rows) == [state |-> "returned", rows |-> rows]
Threw == [state |-> "threw", rows |-> <<>>]

\* Month keys "YYYY-MM", as the number YYYY * 100 + MM.
MonthKeys == {202411, 202412, 202501}
ShortMonth ==
  <<"Jan", "Feb", "Mar", "Apr", "May", "Jun", "Jul", "Aug", "Sep", "Oct", "Nov", "Dec">>

\* formatMonth: "2025-01" -> "Jan 2025"
formatMonth(month) ==
  LET year == month \div 100
      monthNum == month % 100
  IN [name |-> ShortMonth[monthNum], year |-> year]

\* Array.prototype.find(m => m.month === month): the first such item, if any.
RECURSIVE FindMonth(_, _)
FindMonth(series, month) ==
  IF series = <<>> THEN [found |-> FALSE, count |-> 0, revenue |-> 0]
  ELSE IF Head(series).month = month
    THEN [found |-> TRUE, count |-> Head(series).count, revenue |-> Head(series).revenue]
    ELSE FindMonth(Tail(series), month)

\* summary?.monthly_trends || []
OrEmpty(field) == IF field.present THEN field.v ELSE <<>>

\* The row, had line 64 searched summary.monthly_trends for the projection.
MonthlyRowProjectionFromActual(s, item) ==
  LET a == FindMonth(s.monthly_trends.v, item.month)
  IN [month |-> formatMonth(item.month), monthKey |-> item.month,
      actualCount |-> a.count, projectedCount |-> a.count,
      actualRevenue |-> a.revenue, projectedRevenue |-> a.revenue,
      isProjected |-> a.found]

\* The row of lines 62-70 for one item of the combined series (both series present).
MonthlyRow(s, item) ==
  LET a == FindMonth(s.monthly_trends.v, item.month)
      p == FindMonth(s.projected_sales.v, item.month)
  IN [month |-> formatMonth(item.month), monthKey |-> item.month,
      actualCount |-> a.count, projectedCount |-> p.count,
      actualRevenue |-> a.revenue, projectedRevenue |-> p.revenue,
      isProjected |-> p.found]

\* prepareMonthlyData (lines 60-71). With a null summary every `summary?.` is
\* undefined and the combined series is empty. With a summary, the callback of
\* map reads summary.monthly_trends.find and summary.projected_sales.find: a
\* TypeError when the field is missing and the combined series has an item.
prepareMonthlyData(s) ==
  IF s.isNull THEN Returned(<<>>)
  ELSE LET combined == OrEmpty(s.monthly_trends) \o OrEmpty(s.projected_sales)
       IN IF combined # <<>> /\ (~s.monthly_trends.present \/ ~s.projected_sales.present)
            THEN Threw
            ELSE Returned([i \in 1..Len(combined) |-> MonthlyRow(s, combined[i])])

\* RevenueOf without the key: the first entry's revenue, whatever its key.
RevenueOfFirstEntry(entries, key) ==
  IF entries = <<>> THEN 0 ELSE Head(entries).revenue

\* summary.by_zone_revenue[zone] || 0
RECURSIVE RevenueOf(_, _)
RevenueOf(entries, key) ==
  IF entries = <<>> THEN 0
  ELSE IF Head(entries).key = key THEN Head(entries).revenue
  ELSE RevenueOf(Tail(entries), key)

\* Array.prototype.sort((a, b) => b.revenue - a.revenue): descending by revenue,
\* stable (rows the comparator calls equal keep their order).
\* InsertDesc that puts a row before the rows of equal revenue (not stable).
RECURSIVE InsertDescBeforeEqual(_, _)
InsertDescBeforeEqual(sorted, row) ==
  IF sorted = <<>> THEN <<row>>
  ELSE IF Head(sorted).revenue > row.revenue
    THEN <<Head(sorted)>> \o InsertDescBeforeEqual(Tail(sorted), row)
    ELSE <<row>> \o sorted

RECURSIVE InsertDesc(_, _)
InsertDesc(sorted, row) ==
  IF sorted = <<>> THEN <<row>>
  ELSE IF Head(sorted).revenue >= row.revenue
    THEN <<Head(sorted)>> \o InsertDesc(Tail(sorted), row)
    ELSE <<row>> \o sorted

RECURSIVE SortInto(_, _)
SortInto(sorted, rows) ==
  IF rows = <<>> THEN sorted ELSE SortInto(InsertDesc(sorted, Head(rows)), Tail(rows))

SortByRevenueDesc(rows) == SortInto(<<>>, rows)

\* slice(0, n + 1) for slice(0, n).
SliceOneMore(rows, n) == SubSeq(rows, 1, IF Len(rows) < n + 1 THEN Len(rows) ELSE n + 1)

\* Array.prototype.slice(0, n)
Slice(rows, n) == SubSeq(rows, 1, IF Len(rows) < n THEN Len(rows) ELSE n)

ZoneLimit == 10
LeadSourceLimit == 8

\* Object.entries(counts).map(...) of lines 75-80, 87-92, 99-104, before the row is
\* given its field names: a TypeError when the counts mapping is missing, or when
\* the revenue mapping is missing and the counts mapping has an entry.
Joined(counts, revenue) ==
  IF ~counts.present THEN Threw
  ELSE IF counts.v # <<>> /\ ~revenue.present THEN Threw
  ELSE Returned([i \in 1..Len(counts.v) |->
                  [key |-> counts.v[i].key, count |-> counts.v[i].count,
                   revenue |-> RevenueOf(revenue.v, counts.v[i].key)]])

ZoneRows(rows) ==
  [i \in 1..Len(rows) |-> [zone |-> rows[i].key, count |-> rows[i].count, revenue |-> rows[i].revenue]]
SourceRows(rows) ==
  [i \in 1..Len(rows) |-> [source |-> rows[i].key, count |-> rows[i].count, revenue |-> rows[i].revenue]]
SoldByRows(rows) ==
  [i \in 1..Len(rows) |-> [soldBy |-> rows[i].key, count |-> rows[i].count, revenue |-> rows[i].revenue]]

\* prepareZoneData without `if (!summary) return []`: Object.entries reads
\* by_zone of null.
prepareZoneDataNoNullCheck(s) ==
  LET j == Joined(s.by_zone, s.by_zone_revenue)
  IN IF j.state = "threw" THEN Threw
     ELSE Returned(Slice(SortByRevenueDesc(ZoneRows(j.rows)), ZoneLimit))

\* prepareZoneData (lines 73-83)
prepareZoneData(s) ==
  IF s.isNull THEN Returned(<<>>)
  ELSE LET j == Joined(s.by_zone, s.by_zone_revenue)
       IN IF j.state = "threw" THEN Threw
          ELSE Returned(Slice(SortByRevenueDesc(ZoneRows(j.rows)), ZoneLimit))

\* prepareLeadSourceData (lines 85-95)
prepareLeadSourceData(s) ==
  IF s.isNull THEN Returned(<<>>)
  ELSE LET j == Joined(s.by_lead_source, s.by_lead_source_revenue)
       IN IF j.state = "threw" THEN Threw
          ELSE Returned(Slice(SortByRevenueDesc(SourceRows(j.rows)), LeadSourceLimit))

\* prepareSoldByData (lines 97-106)
prepareSoldByData(s) ==
  IF s.isNull THEN Returned(<<>>)
  ELSE LET j == Joined(s.by_sold_by, s.by_sold_by_revenue)
       IN IF j.state = "threw" THEN Threw
          ELSE Returned(SortByRevenueDesc(SoldByRows(j.rows)))

(***************************************************************************)
(* The payloads the builders are applied to.                               *)
(***************************************************************************)
\* A counts mapping has at most MaxKeys keys.
MaxKeys == 11
\* The revenue of the keys repeats with period PatternLen.
PatternLen == 3
\* A monthly series has at most MaxSeries items.
MaxSeries == 2

\* The revenues of the keys.
RevenueChoices == {0, 50, 100}
\* The counts of the keys, repeating: 5, 10, 3, 5, ...
CountPattern == <<5, 10, 3>>

CountsMapping(n) ==
  [i \in 1..n |-> [key |-> i, count |-> CountPattern[((i - 1) % Len(CountPattern)) + 1]]]

\* The entries of a revenue mapping for the keys i..n; a sparse mapping has no
\* entry for a key without revenue.
RECURSIVE RevenueEntries(_, _, _, _)
RevenueEntries(n, pattern, sparse, i) ==
  IF i > n THEN <<>>
  ELSE LET r == pattern[((i - 1) % PatternLen) + 1]
       IN (IF sparse /\ r = 0 THEN <<>> ELSE <<[key |-> i, revenue |-> r]>>)
            \o RevenueEntries(n, pattern, sparse, i + 1)

\* With `orphan`, the mapping also has revenue for key 0, which no counts mapping has.
RevenueMapping(n, pattern, sparse, orphan) ==
  (IF orphan THEN <<[key |-> 0, revenue |-> 70]>> ELSE <<>>)
    \o RevenueEntries(n, pattern, sparse, 1)

RevenueMappings(n) ==
  {Missing} \cup {Some(RevenueMapping(n, pattern, sparse, orphan)) :
                    pattern \in [1..PatternLen -> RevenueChoices],
                    sparse \in BOOLEAN, orphan \in BOOLEAN}

\* The (counts, revenue) pairs of one breakdown.
Breakdowns ==
  {<<Missing, Missing>>, <<Missing, Some(<<>>)>>}
  \cup UNION {{<<Some(CountsMapping(n)), r>> : r \in RevenueMappings(n)} : n \in 0..MaxKeys}

\* The monthly series: items with distinct month keys, in any order.
MonthlyItems == {[month |-> m, count |-> c[1], revenue |-> c[2]] :
                   m \in MonthKeys, c \in {<<0, 0>>, <<2, 500>>}}

Distinct(series) ==
  \A i, j \in 1..Len(series) : i # j => series[i].month # series[j].month

SeriesChoices ==
  {Missing} \cup
  {Some(q) : q \in {q \in UNION {[1..n -> MonthlyItems] : n \in 0..MaxSeries} : Distinct(q)}}

MonthsOf(series) == {series[i].month : i \in 1..Len(series)}

\* The actual and the projected series share at most one month (the boundary month).
MonthlyPairs ==
  {p \in SeriesChoices \X SeriesChoices :
     Cardinality(MonthsOf(p[1].v) \cap MonthsOf(p[2].v)) <= 1}

NullSummary ==
  [isNull |-> TRUE, monthly_trends |-> Missing, projected_sales |-> Missing,
   by_zone |-> Missing, by_zone_revenue |-> Missing,
   by_lead_source |-> Missing, by_lead_source_revenue |-> Missing,
   by_sold_by |-> Missing, by_sold_by_revenue |-> Missing]

\* A payload with nothing sold.
EmptySummary ==
  [isNull |-> FALSE, monthly_trends |-> Some(<<>>), projected_sales |-> Some(<<>>),
   by_zone |-> Some(<<>>), by_zone_revenue |-> Some(<<>>),
   by_lead_source |-> Some(<<>>), by_lead_source_revenue |-> Some(<<>>),
   by_sold_by |-> Some(<<>>), by_sold_by_revenue |-> Some(<<>>)]

\* The payloads: null, and the empty payload with one part of it replaced.
Payloads ==
  {NullSummary}
  \cup {[EmptySummary EXCEPT !.monthly_trends = p[1], !.projected_sales = p[2]] : p \in MonthlyPairs}
  \cup {[EmptySummary EXCEPT !.by_zone = b[1], !.by_zone_revenue = b[2]] : b \in Breakdowns}
  \cup {[EmptySummary EXCEPT !.by_lead_source = b[1], !.by_lead_source_revenue = b[2]] : b \in Breakdowns}
  \cup {[EmptySummary EXCEPT !.by_sold_by = b[1], !.by_sold_by_revenue = b[2]] : b \in Breakdowns}

(***************************************************************************)
(* AuthProvider (RecordDetailModal.tsx lines 402-448) and the API client   *)
(* (part_001).                                                             *)
(***************************************************************************)
\* At most MaxPending requests await their response.
MaxPending == 2

\* The sessions the backend issues, by passcode; any other passcode is rejected.
Accounts ==
  [p \in {"maintenance-pass", "sales-pass"} |->
     IF p = "maintenance-pass" THEN [access_token |-> "token-m", role |-> "maintenance"]
                               ELSE [access_token |-> "token-s", role |-> "sales"]]
Passcodes == DOMAIN Accounts \cup {"wrong"}
Tokens == {Accounts[p].access_token : p \in DOMAIN Accounts}
Roles == {Accounts[p].role : p \in DOMAIN Accounts}

\* The `detail` of a response that rejects a passcode ("": none).
RejectionDetails == {"", "Invalid passcode"}

\* User | null
NoUser == [present |-> FALSE, token |-> "", role |-> ""]
UserOf(token, role) == [present |-> TRUE, token |-> token, role |-> role]

\* The Authorization header: absent, or `Bearer ${token}`.
NoAuthorization == [scheme |-> "", token |-> ""]
Bearer(token) == [scheme |-> "Bearer", token |-> token]

\* The module body of the API client (lines 11-15).
DefaultAuthorizationAtLoad(token) ==
  IF token # "" THEN Bearer(token) ELSE NoAuthorization

\* The request interceptor (lines 18-24) on a config that starts from the defaults.
RequestAuthorization(token, defaults) ==
  IF token # "" THEN Bearer(token) ELSE defaults

\* The errors a request of the API client rejects with.
NoResponse == [present |-> FALSE, status |-> 0, detail |-> ""]
ResponseOf(status, detail) == [present |-> TRUE, status |-> status, detail |-> detail]
TimeoutError ==
  [code |-> "ECONNABORTED", message |-> "timeout of 60000ms exceeded", response |-> NoResponse]
NetworkError ==
  [code |-> "ERR_NETWORK", message |-> "Network Error", response |-> NoResponse]
StatusError(status, detail) ==
  [code |-> IF status >= 500 THEN "ERR_BAD_RESPONSE" ELSE "ERR_BAD_REQUEST",
   message |-> "Request failed with status code", response |-> ResponseOf(status, detail)]

\* The errors of POST /auth/login: a wrong passcode is answered 401.
LoginErrors(passcode) ==
  {TimeoutError, NetworkError, StatusError(500, "")}
  \cup (IF passcode \in DOMAIN Accounts THEN {}
        ELSE {StatusError(401, d) : d \in RejectionDetails})

\* The errors of any other call.
ApiErrors == {TimeoutError, NetworkError, StatusError(401, ""), StatusError(500, "")}

TimedOutMessage == "Request timed out"
UnreachableMessage == "Cannot reach the backend server"
InvalidPasscodeMessage == "Invalid passcode"

\* The message of the catch block that maps every rejection to a failed request.
LoginErrorMessageNetworkOnly(error) == UnreachableMessage

\* The message of the Error login() throws (lines 432-440).
LoginErrorMessage(error) ==
  IF error.code = "ECONNABORTED" \/ error.message = "timeout of 60000ms exceeded"
    THEN TimedOutMessage
  ELSE IF error.message = "Network Error" \/ ~error.response.present
    THEN UnreachableMessage
  ELSE IF error.response.detail # "" THEN error.response.detail
  ELSE InvalidPasscodeMessage

\* The part of the state the response interceptor and the handlers write.
AuthState ==
  [user |-> user, storedToken |-> storedToken, storedRole |-> storedRole,
   defaultAuthorization |-> defaultAuthorization, navigating |-> navigating]

\* The response interceptor on a rejection (lines 29-36).
ResponseRejected(error, s) ==
  IF error.response.present /\ error.response.status = 401
    THEN [s EXCEPT !.storedToken = "", !.storedRole = "", !.navigating = TRUE]
    ELSE s

InstallAuth(s) ==
  /\ user' = s.user
  /\ storedToken' = s.storedToken
  /\ storedRole' = s.storedRole
  /\ defaultAuthorization' = s.defaultAuthorization
  /\ navigating' = s.navigating

\* A request as it leaves the client.
Request(kind, passcode) ==
  [kind |-> kind, passcode |-> passcode,
   authorization |-> RequestAuthorization(storedToken, defaultAuthorization)]

\* The page loads: the module body of the API client runs (lines 3-15) and
\* AuthProvider renders for the first time (lines 403-404). Requests of the page
\* before are gone with it.
PageLoaded ==
  /\ user = NoUser
  /\ isLoading = TRUE
  /\ defaultAuthorization = DefaultAuthorizationAtLoad(storedToken)
  /\ requests = EmptyBag
  /\ loginResult = "none"
  /\ apiResult = "none"
  /\ navigating = FALSE

\* The user reloads the page, or the navigation to '/login' takes place.
Reload ==
  /\ ~isLoading
  /\ user' = NoUser
  /\ isLoading' = TRUE
  /\ defaultAuthorization' = DefaultAuthorizationAtLoad(storedToken)
  /\ requests' = EmptyBag
  /\ loginResult' = "none"
  /\ apiResult' = "none"
  /\ navigating' = FALSE
  /\ UNCHANGED <<storedToken, storedRole>>

\* The mount effect, had it looked at the token only.
RestoreSessionTokenOnly ==
  /\ isLoading
  /\ isLoading' = FALSE
  /\ IF storedToken # ""
       THEN /\ user' = UserOf(storedToken, storedRole)
            /\ defaultAuthorization' = Bearer(storedToken)
       ELSE UNCHANGED <<user, defaultAuthorization>>
  /\ UNCHANGED <<storedToken, storedRole, requests, loginResult, apiResult, navigating>>

\* The mount effect of AuthProvider (lines 406-416).
RestoreSession ==
  /\ isLoading
  /\ isLoading' = FALSE
  /\ IF storedToken # "" /\ storedRole # ""
       THEN /\ user' = UserOf(storedToken, storedRole)
            /\ defaultAuthorization' = Bearer(storedToken)
       ELSE UNCHANGED <<user, defaultAuthorization>>
  /\ UNCHANGED <<storedToken, storedRole, requests, loginResult, apiResult, navigating>>

\* login(passcode) up to its await (lines 418-420).
Login(passcode) ==
  /\ ~isLoading
  /\ ~navigating
  /\ BagCardinality(requests) < MaxPending
  /\ requests' = requests (+) SetToBag({Request("login", passcode)})
  /\ UNCHANGED <<user, isLoading, storedToken, storedRole, defaultAuthorization,
                 loginResult, apiResult, navigating>>

\* A login that stores the session but leaves the default header as it was.
LoginSucceededHeaderForgotten(req) ==
  /\ BagIn(req, requests) /\ req.kind = "login" /\ req.passcode \in DOMAIN Accounts
  /\ requests' = requests (-) SetToBag({req})
  /\ user' = UserOf(Accounts[req.passcode].access_token, Accounts[req.passcode].role)
  /\ storedToken' = Accounts[req.passcode].access_token
  /\ storedRole' = Accounts[req.passcode].role
  /\ loginResult' = "resolved"
  /\ UNCHANGED <<isLoading, defaultAuthorization, apiResult, navigating>>

\* POST /auth/login answers {access_token, role} (lines 421-431).
LoginSucceeded(req) ==
  /\ BagIn(req, requests) /\ req.kind = "login" /\ req.passcode \in DOMAIN Accounts
  /\ requests' = requests (-) SetToBag({req})
  /\ user' = UserOf(Accounts[req.passcode].access_token, Accounts[req.passcode].role)
  /\ storedToken' = Accounts[req.passcode].access_token
  /\ storedRole' = Accounts[req.passcode].role
  /\ defaultAuthorization' = Bearer(Accounts[req.passcode].access_token)
  /\ loginResult' = "resolved"
  /\ UNCHANGED <<isLoading, apiResult, navigating>>

\* POST /auth/login fails: the response interceptor (lines 29-36), then the catch
\* block of login (lines 432-440).
LoginFailed(req, error) ==
  /\ BagIn(req, requests) /\ req.kind = "login" /\ error \in LoginErrors(req.passcode)
  /\ requests' = requests (-) SetToBag({req})
  /\ InstallAuth(ResponseRejected(error, AuthState))
  /\ loginResult' = LoginErrorMessage(error)
  /\ UNCHANGED <<isLoading, apiResult>>

\* logout (lines 443-448).
Logout ==
  /\ ~isLoading
  /\ ~navigating
  /\ user' = NoUser
  /\ storedToken' = ""
  /\ storedRole' = ""
  /\ defaultAuthorization' = NoAuthorization
  /\ UNCHANGED <<isLoading, requests, loginResult, apiResult, navigating>>

\* Any other call of the API client is sent (request interceptor, lines 18-24).
ApiRequest ==
  /\ ~isLoading
  /\ BagCardinality(requests) < MaxPending
  /\ requests' = requests (+) SetToBag({Request("api", "")})
  /\ UNCHANGED <<user, isLoading, storedToken, storedRole, defaultAuthorization,
                 loginResult, apiResult, navigating>>

\* The call is answered 2xx (line 28).
ApiSucceeded(req) ==
  /\ BagIn(req, requests) /\ req.kind = "api"
  /\ requests' = requests (-) SetToBag({req})
  /\ apiResult' = "resolved"
  /\ UNCHANGED <<user, isLoading, storedToken, storedRole, defaultAuthorization,
                 loginResult, navigating>>

\* The call fails: the response interceptor handles the rejection and passes it on
\* to the caller (lines 29-36).
ApiFailed(req, error) ==
  /\ BagIn(req, requests) /\ req.kind = "api" /\ error \in ApiErrors
  /\ requests' = requests (-) SetToBag({req})
  /\ InstallAuth(ResponseRejected(error, AuthState))
  /\ apiResult' = "rejected"
  /\ UNCHANGED <<isLoading, loginResult>>

\* No page of the application is loaded.
AuthIdle ==
  /\ storedToken = "" /\ storedRole = ""
  /\ PageLoaded

(***************************************************************************)
(* SalesSummary: fetchSummary and the filters (part_000 lines 21-48,       *)
(* 108-182).                                                               *)
(***************************************************************************)
\* At most MaxFetches summary requests are sent.
MaxFetches == 4

\* RecordFilters: a field that is not set is "".
NoFilters == [zone |-> "", sold_by |-> "", date_from |-> "", date_to |-> ""]
FilterChoices ==
  [zone : {"", "North"}, sold_by : {"", "Asha"}, date_from : {"", "2025-01-01"},
   date_to : {""}]

\* What the inputs of lines 138-181 can make of the filters: one field changed,
\* or all of them cleared.
FiltersAfterInput(f) ==
  {NoFilters} \cup
  {g \in FilterChoices \ {f} :
     Cardinality({k \in DOMAIN f : f[k] # g[k]}) = 1}

\* if (filters.zone) params.append('zone', filters.zone)
Param(name, value) == IF value # "" THEN <<[name |-> name, value |-> value]>> ELSE <<>>

\* The URLSearchParams of lines 32-36.
SummaryParams(f) ==
  Param("zone", f.zone) \o Param("sold_by", f.sold_by)
    \o Param("date_from", f.date_from) \o Param("date_to", f.date_to)

HasParam(params, name) == \E i \in 1..Len(params) : params[i].name = name

\* The payload the backend answers for the parameters: a filter narrows the
\* zones, the salespeople or the months of the summary.
SummaryFor(params) ==
  [EmptySummary EXCEPT
     !.by_zone = Some(CountsMapping(IF HasParam(params, "zone") THEN 1 ELSE 2)),
     !.by_sold_by = Some(CountsMapping(IF HasParam(params, "sold_by") THEN 1 ELSE 2)),
     !.monthly_trends =
        Some(IF HasParam(params, "date_from")
               THEN <<[month |-> 202501, count |-> 2, revenue |-> 500]>>
               ELSE <<[month |-> 202412, count |-> 2, revenue |-> 500],
                      [month |-> 202501, count |-> 2, revenue |-> 500]>>)]

\* The errors of GET /sales/summary.
SummaryErrors == ApiErrors \cup {StatusError(400, "Invalid date range")}

\* error.response?.data?.detail || error.message || 'Failed to load sales summary'
SummaryErrorMessage(error) ==
  IF error.response.present /\ error.response.detail # "" THEN error.response.detail
  ELSE IF error.message # "" THEN error.message
  ELSE "Failed to load sales summary"

\* A change of the filters with the inputs on screen whatever the loading flag.
SetFiltersWhileLoading(f) ==
  /\ f \in FiltersAfterInput(filters)
  /\ issued < MaxFetches
  /\ filters' = f
  /\ summaryLoading' = TRUE
  /\ issued' = issued + 1
  /\ summaryFetches' = summaryFetches \cup {[seq |-> issued + 1, params |-> SummaryParams(f)]}
  /\ latestAnswered' = FALSE
  /\ UNCHANGED <<summary, lastAlert>>

\* An input changes the filters (lines 141-177); the inputs are on screen only when
\* loading is false and there is a summary (lines 108-118). The effect of lines
\* 25-27 then calls fetchSummary, which runs up to its await (lines 29-38).
SetFilters(f) ==
  /\ ~summaryLoading
  /\ ~summary.isNull
  /\ f \in FiltersAfterInput(filters)
  /\ issued < MaxFetches
  /\ filters' = f
  /\ summaryLoading' = TRUE
  /\ issued' = issued + 1
  /\ summaryFetches' = summaryFetches \cup {[seq |-> issued + 1, params |-> SummaryParams(f)]}
  /\ latestAnswered' = FALSE
  /\ UNCHANGED <<summary, lastAlert>>

\* GET /sales/summary answers (lines 38-39, 45-47).
SummaryResponse(req) ==
  /\ req \in summaryFetches
  /\ summaryFetches' = summaryFetches \ {req}
  /\ summary' = SummaryFor(req.params)
  /\ summaryLoading' = FALSE
  /\ latestAnswered' = (latestAnswered \/ req.seq = issued)
  /\ UNCHANGED <<filters, issued, lastAlert>>

\* A failure that also drops the summary on display.
SummaryFailureClearsSummary(req, error) ==
  /\ req \in summaryFetches /\ error \in SummaryErrors
  /\ summaryFetches' = summaryFetches \ {req}
  /\ InstallAuth(ResponseRejected(error, AuthState))
  /\ lastAlert' = SummaryErrorMessage(error)
  /\ summary' = NullSummary
  /\ summaryLoading' = FALSE
  /\ UNCHANGED <<filters, issued, latestAnswered>>

\* GET /sales/summary fails: the response interceptor of the API client (part_001
\* lines 29-36), then the catch and finally blocks (lines 40-47).
SummaryFailure(req, error) ==
  /\ req \in summaryFetches /\ error \in SummaryErrors
  /\ summaryFetches' = summaryFetches \ {req}
  /\ InstallAuth(ResponseRejected(error, AuthState))
  /\ lastAlert' = SummaryErrorMessage(error)
  /\ summaryLoading' = FALSE
  /\ UNCHANGED <<summary, filters, issued, latestAnswered>>

\* SalesSummary is not on screen.
FetchIdle ==
  /\ filters = NoFilters
  /\ summaryLoading = FALSE
  /\ summaryFetches = {}
  /\ issued = 0
  /\ latestAnswered = FALSE
  /\ lastAlert = ""

\* SalesSummary after its first render and effect (lines 21-27): the request for
\* the empty filters is in flight.
FetchMounted ==
  /\ filters = NoFilters
  /\ summary = NullSummary
  /\ summaryLoading = TRUE
  /\ summaryFetches = {[seq |-> 1, params |-> SummaryParams(NoFilters)]}
  /\ issued = 1
  /\ latestAnswered = FALSE
  /\ lastAlert = ""

(***************************************************************************)
(* The specifications.                                                     *)
(***************************************************************************)
NoWarranty == [status |-> "not_called", expiry |-> NullDate, daysRemaining |-> Num(0)]

WarrantyIdle ==
  /\ today = MakeDay(2024, 1, 1) * TicksPerDay
  /\ tz = 0
  /\ warranty = NoWarranty

SummaryIdle ==
  /\ summary = NullSummary
  /\ monthlyData = NotCalled
  /\ zoneData = NotCalled
  /\ leadSourceData = NotCalled
  /\ soldByData = NotCalled
  /\ FetchIdle

\* ---- calculateWarrantyStatus ----
CivilDates ==
  {c \in DeliveryYears \X DeliveryMonths \X DeliveryDays : c[3] <= DaysInMonth(c[1], c[2])}

DeliveryChoices ==
  {AbsentDelivery, BadDelivery} \cup
  {Delivery(MakeDay(c[1], c[2], c[3]) * TicksPerDay + tod) :
     c \in CivilDates, tod \in 0..(TicksPerDay - 1)}

InitWarranty ==
  /\ \E d \in DeliveryChoices :
       /\ currentRecord = [id |-> 1, client_phone |-> PhoneOf(1), date_of_delivery |-> d]
       /\ \E k \in (-WindowDays * TicksPerDay)..((WindowDays + 1) * TicksPerDay) :
            today = d.time + 365 * TicksPerDay + k
  /\ tz \in TzOffsets
  /\ warranty = NoWarranty
  /\ Mounted(currentRecord, FALSE)
  /\ SummaryIdle
  /\ AuthIdle

\* A render of the modal calls calculateWarrantyStatus (line 77).
RenderWarranty ==
  /\ warranty' = calculateWarrantyStatus(currentRecord, today, tz)
  /\ UNCHANGED <<modalVars, today, tz, summaryVars, authVars>>

NextWarranty == RenderWarranty

SpecWarranty == InitWarranty /\ [][NextWarranty]_vars

\* ---- the chart series builders ----
InitSummary ==
  /\ summary \in Payloads
  /\ monthlyData = NotCalled
  /\ zoneData = NotCalled
  /\ leadSourceData = NotCalled
  /\ soldByData = NotCalled
  /\ FetchIdle
  /\ ModalIdle(RecordOf(1))
  /\ WarrantyIdle
  /\ AuthIdle

\* Had line 61 pushed the projection onto summary.monthly_trends.
SummaryAfterMonthlyPushed(s) ==
  IF ~s.isNull /\ s.monthly_trends.present /\ s.projected_sales.present
    THEN [s EXCEPT !.monthly_trends = Some(@.v \o s.projected_sales.v)]
    ELSE s

\* The payload after prepareMonthlyData ran: the spread of line 61 copies both
\* series into a new array, and map and find (lines 62-64) write nothing.
SummaryAfterMonthly(s) == s

\* The payload after a breakdown builder ran: Object.entries and map (lines 75,
\* 87, 99) make new arrays, and sort and slice work on those.
SummaryAfterBreakdown(s) == s

CallPrepareMonthlyData ==
  /\ monthlyData' = prepareMonthlyData(summary)
  /\ summary' = SummaryAfterMonthly(summary)
  /\ UNCHANGED <<modalVars, warrantyVars, authVars, fetchVars, zoneData, leadSourceData, soldByData>>

CallPrepareZoneData ==
  /\ zoneData' = prepareZoneData(summary)
  /\ summary' = SummaryAfterBreakdown(summary)
  /\ UNCHANGED <<modalVars, warrantyVars, authVars, fetchVars, monthlyData, leadSourceData, soldByData>>

CallPrepareLeadSourceData ==
  /\ leadSourceData' = prepareLeadSourceData(summary)
  /\ summary' = SummaryAfterBreakdown(summary)
  /\ UNCHANGED <<modalVars, warrantyVars, authVars, fetchVars, monthlyData, zoneData, soldByData>>

CallPrepareSoldByData ==
  /\ soldByData' = prepareSoldByData(summary)
  /\ summary' = SummaryAfterBreakdown(summary)
  /\ UNCHANGED <<modalVars, warrantyVars, authVars, fetchVars, monthlyData, zoneData, leadSourceData>>

NextSummary ==
  \/ CallPrepareMonthlyData
  \/ CallPrepareZoneData
  \/ CallPrepareLeadSourceData
  \/ CallPrepareSoldByData

SpecSummary == InitSummary /\ [][NextSummary]_vars

\* ---- the record detail modal ----
InitModal ==
  /\ \E r \in Records, open \in BOOLEAN : Mounted(r, open)
  /\ WarrantyIdle
  /\ SummaryIdle
  /\ AuthIdle

NextModal ==
  \/ \E r \in Records, open \in BOOLEAN :
       SetProps(r, open) /\ UNCHANGED <<warrantyVars, summaryVars, authVars>>
  \/ \E req \in BagToSet(historyFetches) :
       HistoryResponse(req) /\ UNCHANGED <<warrantyVars, summaryVars, authVars>>
  \/ \E req \in BagToSet(historyFetches) :
       HistoryFailure(req) /\ UNCHANGED <<warrantyVars, summaryVars, authVars>>
  \/ \E id \in RecordIds :
       ClickRelated(id) /\ UNCHANGED <<warrantyVars, summaryVars, authVars>>
  \/ \E id \in BagToSet(detailFetches) :
       DetailResponse(id) /\ UNCHANGED <<warrantyVars, summaryVars, authVars>>
  \/ \E id \in BagToSet(detailFetches) :
       DetailFailure(id) /\ UNCHANGED <<warrantyVars, summaryVars, authVars>>

SpecModal == InitModal /\ [][NextModal]_vars

\* ---- the session ----
\* The page loads with whatever the storage holds.
InitAuth ==
  /\ storedToken \in Tokens \cup {""}
  /\ storedRole \in Roles \cup {""}
  /\ PageLoaded
  /\ ModalIdle(RecordOf(1))
  /\ WarrantyIdle
  /\ SummaryIdle

NextAuth ==
  \/ Reload /\ UNCHANGED <<modalVars, warrantyVars, summaryVars>>
  \/ RestoreSession /\ UNCHANGED <<modalVars, warrantyVars, summaryVars>>
  \/ \E passcode \in Passcodes :
       Login(passcode) /\ UNCHANGED <<modalVars, warrantyVars, summaryVars>>
  \/ \E req \in BagToSet(requests) :
       LoginSucceeded(req) /\ UNCHANGED <<modalVars, warrantyVars, summaryVars>>
  \/ \E req \in BagToSet(requests) : \E error \in LoginErrors(req.passcode) :
       LoginFailed(req, error) /\ UNCHANGED <<modalVars, warrantyVars, summaryVars>>
  \/ Logout /\ UNCHANGED <<modalVars, warrantyVars, summaryVars>>
  \/ ApiRequest /\ UNCHANGED <<modalVars, warrantyVars, summaryVars>>
  \/ \E req \in BagToSet(requests) :
       ApiSucceeded(req) /\ UNCHANGED <<modalVars, warrantyVars, summaryVars>>
  \/ \E req \in BagToSet(requests) : \E error \in ApiErrors :
       ApiFailed(req, error) /\ UNCHANGED <<modalVars, warrantyVars, summaryVars>>

SpecAuth == InitAuth /\ [][NextAuth]_vars

\* ---- fetchSummary ----
InitFetch ==
  /\ FetchMounted
  /\ monthlyData = NotCalled
  /\ zoneData = NotCalled
  /\ leadSourceData = NotCalled
  /\ soldByData = NotCalled
  /\ ModalIdle(RecordOf(1))
  /\ WarrantyIdle
  /\ AuthIdle

NextFetch ==
  \/ \E f \in FilterChoices :
       /\ SetFilters(f)
       /\ UNCHANGED <<modalVars, warrantyVars, authVars, monthlyData, zoneData,
                      leadSourceData, soldByData>>
  \/ \E req \in summaryFetches :
       /\ SummaryResponse(req)
       /\ UNCHANGED <<modalVars, warrantyVars, authVars, monthlyData, zoneData,
                      leadSourceData, soldByData>>
  \/ \E req \in summaryFetches : \E error \in SummaryErrors :
       /\ SummaryFailure(req, error)
       /\ UNCHANGED <<modalVars, warrantyVars, isLoading, requests, loginResult, apiResult,
                      monthlyData, zoneData, leadSourceData, soldByData>>

SpecFetch == InitFetch /\ [][NextFetch]_vars

Spec == SpecModal

(***************************************************************************)
(* Properties of calculateWarrantyStatus (SpecWarranty).                   *)
(***************************************************************************)
WarrantyCalledOnDate ==
  warranty.status # "not_called" /\ currentRecord.date_of_delivery.kind = "date"

\* ceil((expiry - now) in days) for the expiry the call returned and the clock it read.
CeilDaysToExpiry == Ceil(warranty.expiry.time - today, TicksPerDay)

\* The local calendar date and time of day of a time value.
LocalCivil(t) ==
  LET local == t + tz
      day == local \div TicksPerDay
  IN [y |-> YearFromDay(day), m |-> MonthFromDay(day), d |-> DateFromDay(day),
      tod |-> local % TicksPerDay]

\* The expiry is the delivery date one calendar year later: the same month, day
\* and time of day of the next year (1 March for a delivery on 29 February).
ExpiryIsOneYearLater ==
  LET from == LocalCivil(currentRecord.date_of_delivery.time)
      to == LocalCivil(warranty.expiry.time)
  IN IF from.m = 2 /\ from.d = 29
       THEN to = [y |-> from.y + 1, m |-> 3, d |-> 1, tod |-> from.tod]
       ELSE to = [from EXCEPT !.y = from.y + 1]

\* C1: for a record with a delivery date, the expiry is the delivery date plus one
\* calendar year and, with daysRemaining = ceil((expiry - now) in days), the status
\* is out_of_warranty with |daysRemaining| reported when daysRemaining < 0,
\* expiring_soon when 0 <= daysRemaining <= 30 and in_warranty when daysRemaining > 30.
C1_WarrantyClassification ==
  WarrantyCalledOnDate =>
    /\ warranty.expiry.kind = "date"
    /\ ExpiryIsOneYearLater
    /\ CeilDaysToExpiry < 0 =>
         warranty.status = "out_of_warranty" /\ warranty.daysRemaining = Num(-CeilDaysToExpiry)
    /\ (0 <= CeilDaysToExpiry /\ CeilDaysToExpiry <= 30) =>
         warranty.status = "expiring_soon" /\ warranty.daysRemaining = Num(CeilDaysToExpiry)
    /\ CeilDaysToExpiry > 30 =>
         warranty.status = "in_warranty" /\ warranty.daysRemaining = Num(CeilDaysToExpiry)

\* C1 witness: a call that finds exactly 30 days remaining, for a delivery on 29 February.
C1_Witness ==
  /\ WarrantyCalledOnDate
  /\ CeilDaysToExpiry = 30
  /\ warranty.status = "expiring_soon"
  /\ LocalCivil(currentRecord.date_of_delivery.time).d = 29
  /\ LocalCivil(currentRecord.date_of_delivery.time).m = 2

\* The boundary cases of C1, each reached by some call.
C1_Boundary31 == WarrantyCalledOnDate /\ CeilDaysToExpiry = 31 /\ warranty.status = "in_warranty"
C1_Boundary0 == WarrantyCalledOnDate /\ CeilDaysToExpiry = 0 /\ warranty.status = "expiring_soon"
C1_BoundaryMinus1 ==
  WarrantyCalledOnDate /\ CeilDaysToExpiry = -1 /\ warranty.status = "out_of_warranty"
    /\ warranty.daysRemaining = Num(1)

\* C2: if delivery + 1 year is strictly later than now the status is in_warranty or
\* expiring_soon; if it is strictly earlier than now, by any amount, the status is
\* out_of_warranty.
C2_ExpiredIsOutOfWarranty ==
  WarrantyCalledOnDate =>
    /\ warranty.expiry.time > today => warranty.status \in {"in_warranty", "expiring_soon"}
    /\ warranty.expiry.time < today => warranty.status = "out_of_warranty"

\* The first half of C2, which the code keeps.
C2_NotExpiredIsInWarranty ==
  WarrantyCalledOnDate =>
    (warranty.expiry.time > today => warranty.status \in {"in_warranty", "expiring_soon"})

\* The case C2 fails on: the warranty expired less than a day ago.
C2_ExpiredWithinTheDay ==
  /\ WarrantyCalledOnDate
  /\ warranty.expiry.time < today
  /\ today - warranty.expiry.time < TicksPerDay
  /\ warranty.status = "expiring_soon"

(***************************************************************************)
(* Properties of the chart series builders (SpecSummary).                  *)
(***************************************************************************)
\* The rows of a breakdown with the category under one name.
ZoneKeyed(rows) ==
  [i \in 1..Len(rows) |-> [key |-> rows[i].zone, count |-> rows[i].count, revenue |-> rows[i].revenue]]
SourceKeyed(rows) ==
  [i \in 1..Len(rows) |-> [key |-> rows[i].source, count |-> rows[i].count, revenue |-> rows[i].revenue]]
SoldByKeyed(rows) ==
  [i \in 1..Len(rows) |-> [key |-> rows[i].soldBy, count |-> rows[i].count, revenue |-> rows[i].revenue]]

KeysOf(entries) == {entries[i].key : i \in 1..Len(entries)}

\* The place of a key in the counts mapping (the order its keys are met in).
PositionOf(entries, key) == CHOOSE i \in 1..Len(entries) : entries[i].key = key

\* The revenue mapping's value for a key is r, or it has none and r is 0.
IsRevenueFor(revenue, key, r) ==
  \/ \E i \in 1..Len(revenue) : revenue[i].key = key /\ revenue[i].revenue = r
  \/ key \notin KeysOf(revenue) /\ r = 0

\* The revenue mapping's value for a key, 0 without one.
RevenueFor(revenue, key) ==
  IF key \in KeysOf(revenue)
    THEN revenue[CHOOSE i \in 1..Len(revenue) : revenue[i].key = key].revenue
    ELSE 0

RECURSIVE SumRevenue(_)
SumRevenue(entries) ==
  IF entries = <<>> THEN 0 ELSE Head(entries).revenue + SumRevenue(Tail(entries))

Min(a, b) == IF a < b THEN a ELSE b

\* The three breakdowns that returned rows for a payload:
\* <<counts mapping, revenue mapping, rows, most rows returned>>.
ReturnedBreakdowns ==
  IF summary.isNull THEN {}
  ELSE (IF zoneData.state = "returned"
          THEN {<<summary.by_zone.v, summary.by_zone_revenue.v,
                  ZoneKeyed(zoneData.rows), ZoneLimit>>} ELSE {})
       \cup (IF leadSourceData.state = "returned"
          THEN {<<summary.by_lead_source.v, summary.by_lead_source_revenue.v,
                  SourceKeyed(leadSourceData.rows), LeadSourceLimit>>} ELSE {})
       \cup (IF soldByData.state = "returned"
          THEN {<<summary.by_sold_by.v, summary.by_sold_by_revenue.v,
                  SoldByKeyed(soldByData.rows), Len(summary.by_sold_by.v)>>} ELSE {})

\* C4: the output of prepareMonthlyData holds every month key of either series
\* exactly once, also a month key that both series hold.
C4_EachMonthOnce ==
  monthlyData.state = "returned" =>
    \A m \in MonthsOf(summary.monthly_trends.v) \cup MonthsOf(summary.projected_sales.v) :
      Cardinality({i \in 1..Len(monthlyData.rows) : monthlyData.rows[i].monthKey = m}) = 1

\* What holds instead: a month of both series has two rows, any other month one.
C4_SharedMonthTwice ==
  monthlyData.state = "returned" =>
    \A m \in MonthsOf(summary.monthly_trends.v) \cup MonthsOf(summary.projected_sales.v) :
      Cardinality({i \in 1..Len(monthlyData.rows) : monthlyData.rows[i].monthKey = m})
        = IF m \in MonthsOf(summary.monthly_trends.v) \cap MonthsOf(summary.projected_sales.v)
            THEN 2 ELSE 1

\* The case C4 fails on: a month of both series, with two rows in the output.
C4_SharedMonthHasTwoRows ==
  /\ monthlyData.state = "returned"
  /\ \E m \in MonthsOf(summary.monthly_trends.v) \cap MonthsOf(summary.projected_sales.v) :
       Cardinality({i \in 1..Len(monthlyData.rows) : monthlyData.rows[i].monthKey = m}) = 2

\* C5: every row of a breakdown is {key, count, revenue} for a key of the counts
\* mapping, with that key's count and its revenue in the paired mapping, or 0 when
\* the revenue mapping has no such key; no key has two rows, and no key is missing
\* unless the rows were truncated.
C5_RowsJoinCountsAndRevenue ==
  \A b \in ReturnedBreakdowns :
    LET counts == b[1]
        revenue == b[2]
        rows == b[3]
    IN /\ \A i \in 1..Len(rows) :
            /\ \E j \in 1..Len(counts) :
                 counts[j].key = rows[i].key /\ counts[j].count = rows[i].count
            /\ IsRevenueFor(revenue, rows[i].key, rows[i].revenue)
       /\ \A i, j \in 1..Len(rows) : i # j => rows[i].key # rows[j].key
       /\ Len(counts) <= b[4] => KeysOf(counts) = KeysOf(rows)

\* C5 witness: zone rows for three zones of which one has no revenue entry, and a
\* revenue entry for a zone without a count.
C5_Witness ==
  /\ ~summary.isNull
  /\ zoneData.state = "returned"
  /\ Len(summary.by_zone.v) = 3
  /\ \E k \in KeysOf(summary.by_zone.v) : k \notin KeysOf(summary.by_zone_revenue.v)
  /\ \E i \in 1..Len(zoneData.rows) : zoneData.rows[i].revenue = 100
  /\ \E i \in 1..Len(zoneData.rows) : zoneData.rows[i].revenue = 0

\* C6: the rows of a breakdown are in descending order of revenue, and rows of
\* equal revenue are in the order of their keys in the counts mapping.
C6_SortedByRevenueStable ==
  \A b \in ReturnedBreakdowns :
    LET counts == b[1]
        rows == b[3]
    IN \A i, j \in 1..Len(rows) :
         i < j =>
           \/ rows[i].revenue > rows[j].revenue
           \/ /\ rows[i].revenue = rows[j].revenue
              /\ PositionOf(counts, rows[i].key) < PositionOf(counts, rows[j].key)

\* C6 witness: sold-by rows in which two salespeople tie behind a third one that
\* comes later in the counts mapping.
C6_Witness ==
  /\ ~summary.isNull
  /\ soldByData.state = "returned"
  /\ Len(soldByData.rows) >= 3
  /\ soldByData.rows[1].soldBy > soldByData.rows[2].soldBy
  /\ soldByData.rows[2].revenue = soldByData.rows[3].revenue
  /\ soldByData.rows[2].revenue > 0

\* The scenario of C6: counts {A:5, B:10, C:3}, revenue {A:100, B:50} gives
\* A(100), B(50), C(0).
C6_Scenario ==
  /\ ~summary.isNull
  /\ summary.by_zone = Some(<<[key |-> 1, count |-> 5], [key |-> 2, count |-> 10],
                              [key |-> 3, count |-> 3]>>)
  /\ summary.by_zone_revenue = Some(<<[key |-> 1, revenue |-> 100], [key |-> 2, revenue |-> 50]>>)
  /\ zoneData = Returned(<<[zone |-> 1, count |-> 5, revenue |-> 100],
                           [zone |-> 2, count |-> 10, revenue |-> 50],
                           [zone |-> 3, count |-> 3, revenue |-> 0]>>)

\* C7: zone rows are the first min(10, n) and lead-source rows the first min(8, n)
\* rows of the descending order; sold-by rows are all n rows.
C7_TopRows ==
  \A b \in ReturnedBreakdowns :
    LET counts == b[1]
        revenue == b[2]
        rows == b[3]
    IN /\ Len(rows) = Min(b[4], Len(counts))
       /\ \A k \in KeysOf(counts) \ KeysOf(rows) :
            \A i \in 1..Len(rows) :
              \/ rows[i].revenue > RevenueFor(revenue, k)
              \/ /\ rows[i].revenue = RevenueFor(revenue, k)
                 /\ PositionOf(counts, rows[i].key) < PositionOf(counts, k)

\* C7 witness: eleven zones of which ten are returned, the one left out having the
\* least revenue.
C7_Witness ==
  /\ ~summary.isNull
  /\ zoneData.state = "returned"
  /\ Len(summary.by_zone.v) = 11
  /\ Len(zoneData.rows) = 10
  /\ zoneData.rows[1].revenue > zoneData.rows[10].revenue

\* More than eight lead sources, and more than ten salespeople, are reached too.
C7_LeadSourcesCut ==
  /\ ~summary.isNull /\ leadSourceData.state = "returned"
  /\ Len(summary.by_lead_source.v) = 9 /\ Len(leadSourceData.rows) = 8
C7_AllSalespeople ==
  /\ ~summary.isNull /\ soldByData.state = "returned"
  /\ Len(summary.by_sold_by.v) = 11 /\ Len(soldByData.rows) = 11

\* C8: the revenue of the sold-by rows sums to the sum of the by_sold_by_revenue
\* mapping; the revenue of the zone and of the lead-source rows sums to at most the
\* sum of the paired revenue mapping.
C8_RevenueSums ==
  ~summary.isNull =>
    /\ soldByData.state = "returned" =>
         SumRevenue(soldByData.rows) = SumRevenue(summary.by_sold_by_revenue.v)
    /\ zoneData.state = "returned" =>
         SumRevenue(zoneData.rows) <= SumRevenue(summary.by_zone_revenue.v)
    /\ leadSourceData.state = "returned" =>
         SumRevenue(leadSourceData.rows) <= SumRevenue(summary.by_lead_source_revenue.v)

\* What the code keeps of C8: the sold-by rows sum to the revenue of the keys of
\* the counts mapping, and the "at most" part.
C8_RevenueOfCountedKeys ==
  ~summary.isNull =>
    /\ soldByData.state = "returned" =>
         SumRevenue(soldByData.rows)
           = SumRevenue(SelectSeq(summary.by_sold_by_revenue.v,
                                  LAMBDA e : e.key \in KeysOf(summary.by_sold_by.v)))
    /\ zoneData.state = "returned" =>
         SumRevenue(zoneData.rows) <= SumRevenue(summary.by_zone_revenue.v)
    /\ leadSourceData.state = "returned" =>
         SumRevenue(leadSourceData.rows) <= SumRevenue(summary.by_lead_source_revenue.v)

\* The case C8 fails on: revenue of a salesperson the counts mapping does not
\* have is in no row.
C8_RevenueDropped ==
  /\ ~summary.isNull
  /\ soldByData.state = "returned"
  /\ summary.by_sold_by.v # <<>>
  /\ \E k \in KeysOf(summary.by_sold_by_revenue.v) : k \notin KeysOf(summary.by_sold_by.v)
  /\ SumRevenue(soldByData.rows) < SumRevenue(summary.by_sold_by_revenue.v)

\* C9: with a null summary each of the four builders returns an empty sequence
\* and none throws.
C9_NullSummaryGivesNoRows ==
  summary.isNull =>
    \A result \in {monthlyData, zoneData, leadSourceData, soldByData} :
      result.state # "not_called" => result = Returned(<<>>)

\* C9 witness: all four builders were called on the null summary.
C9_Witness ==
  /\ summary.isNull
  /\ monthlyData = Returned(<<>>)
  /\ zoneData = Returned(<<>>)
  /\ leadSourceData = Returned(<<>>)
  /\ soldByData = Returned(<<>>)

\* C10: no builder throws on a payload that is not null, whatever field is missing.
C10_NeverThrows ==
  ~summary.isNull =>
    \A result \in {monthlyData, zoneData, leadSourceData, soldByData} :
      result.state # "threw"

\* The throws C10 fails on.
C10_ThrowsWithoutProjection ==
  /\ ~summary.isNull
  /\ summary.monthly_trends.present /\ summary.monthly_trends.v # <<>>
  /\ ~summary.projected_sales.present
  /\ monthlyData.state = "threw"
C10_ThrowsWithoutRevenue ==
  /\ ~summary.isNull
  /\ summary.by_zone.present /\ summary.by_zone.v # <<>>
  /\ ~summary.by_zone_revenue.present
  /\ zoneData.state = "threw"


(***************************************************************************)
(* Properties of the record detail modal (SpecModal).                      *)
(***************************************************************************)
\* C3: relatedRecords never holds the history that was requested for a record other
\* than the one displayed: the response of a history request that was sent for
\* another record is discarded.
C3_NoHistoryOfAnotherRecord ==
  historyOf # 0 => historyOf = currentRecord.id

\* The case C3 fails on: the list shows the history requested for a record of
\* another client than the one displayed.
C3_HistoryOfAnotherClient ==
  /\ isOpen
  /\ historyOf # 0
  /\ historyOf # currentRecord.id
  /\ PhoneOf(historyOf) # currentRecord.client_phone
  /\ relatedRecords # <<>>
  /\ ~loading

ItemsOf(series, m) == {series[i] : i \in {i \in 1..Len(series) : series[i].month = m}}

\* C12: every row of prepareMonthlyData for a month M has M as its monthKey, the
\* count and revenue of M in the actual series (0 when M is not in it), the count
\* and revenue of M in the projection (0 when M is not in it), and isProjected
\* true exactly when M is in the projection.
C12_MonthlyRowValues ==
  monthlyData.state = "returned" =>
    \A i \in 1..Len(monthlyData.rows) :
      LET row == monthlyData.rows[i]
          M == (OrEmpty(summary.monthly_trends) \o OrEmpty(summary.projected_sales))[i].month
          actual == ItemsOf(summary.monthly_trends.v, M)
          projected == ItemsOf(summary.projected_sales.v, M)
      IN /\ row.monthKey = M
         /\ IF actual = {}
              THEN row.actualCount = 0 /\ row.actualRevenue = 0
              ELSE \A it \in actual :
                     row.actualCount = it.count /\ row.actualRevenue = it.revenue
         /\ IF projected = {}
              THEN row.projectedCount = 0 /\ row.projectedRevenue = 0
              ELSE \A it \in projected :
                     row.projectedCount = it.count /\ row.projectedRevenue = it.revenue
         /\ row.isProjected <=> (projected # {})

\* Rows of both kinds: an actual month with sales that is not projected, and a
\* projected month with sales that has no actual figures.
C12_Witness ==
  /\ monthlyData.state = "returned"
  /\ \E i, j \in 1..Len(monthlyData.rows) :
       /\ ~monthlyData.rows[i].isProjected
       /\ monthlyData.rows[i].actualCount = 2 /\ monthlyData.rows[i].projectedRevenue = 0
       /\ monthlyData.rows[j].isProjected
       /\ monthlyData.rows[j].projectedRevenue = 500 /\ monthlyData.rows[j].actualCount = 0

\* No history request is ever sent without a phone.
NoRequestWithoutPhone == \A req \in BagToSet(historyFetches) : req.phone # ""

\* The effect of lines 23-29 ran for the record now displayed.
HistoryEffectRan ==
  \/ isOpen' # isOpen
  \/ currentRecord'.id # currentRecord.id
  \/ currentRecord'.client_phone # currentRecord.client_phone

\* C13: when the effect of lines 23-29 runs for a displayed record without a
\* client phone, the modal open or closed, the history list is empty afterwards
\* and no request for that record's history was sent; no request is ever sent
\* without a phone.
C13_NoPhoneNoHistoryRequest ==
  /\ []NoRequestWithoutPhone
  /\ [][(HistoryEffectRan /\ currentRecord'.client_phone = "") =>
          /\ relatedRecords' = <<>>
          /\ \A req \in BagToSet(historyFetches') :
               req.id = currentRecord'.id =>
                 CopiesIn(req, historyFetches') <= CopiesIn(req, historyFetches)]_vars

\* The modal is open on a record without a phone, after a record with a phone
\* whose history request is still in flight.
C13_Witness ==
  /\ isOpen
  /\ currentRecord.client_phone = ""
  /\ relatedRecords = <<>>
  /\ historyFetches # EmptyBag

\* C14: when a history request fails, fetchRelatedRecords handles the failure:
\* the history list is empty and loading is false afterwards, the displayed
\* record is the same, and no promise rejects.
C14_HistoryFailureHandled ==
  [][\A req \in BagToSet(historyFetches) :
       HistoryFailure(req) =>
         /\ relatedRecords' = <<>>
         /\ loading' = FALSE
         /\ currentRecord' = currentRecord
         /\ rejections' = rejections]_vars

\* The modal is open on a record that has history, nothing is in flight, and the
\* list is empty because the request failed.
C14_Witness ==
  /\ isOpen
  /\ currentRecord.client_phone # ""
  /\ History(currentRecord.client_phone, currentRecord.id) # <<>>
  /\ historyFetches = EmptyBag
  /\ historyOf = 0
  /\ relatedRecords = <<>>
  /\ ~loading
  /\ rejections = 0

\* C15: when GET /records/{id} answers after a click on a related record, the
\* displayed record is the fetched one and the history list is empty right after.
C15_SwitchShowsFetchedRecord ==
  [][\A id \in BagToSet(detailFetches) :
       DetailResponse(id) =>
         /\ currentRecord' = RecordOf(id)
         /\ relatedRecords' = <<>>]_vars

\* The modal shows a related record in place of the one it was given, with an
\* empty list while the history of the new record is being fetched.
C15_Witness ==
  /\ isOpen
  /\ currentRecord # record
  /\ currentRecord.client_phone = record.client_phone
  /\ relatedRecords = <<>>
  /\ loading
  /\ BagIn([phone |-> currentRecord.client_phone, id |-> currentRecord.id], historyFetches)

\* C16: when GET /records/{id} fails, onEdit is called once, with the id of the
\* clicked related record, onClose is called, and the displayed record and the
\* history list stay as they were.
C16_DetailFailureFallsBackToEdit ==
  [][\A id \in BagToSet(detailFetches) :
       DetailFailure(id) =>
         /\ editSignals' = Append(editSignals, id)
         /\ closeSignals' = closeSignals + 1
         /\ currentRecord' = currentRecord
         /\ relatedRecords' = relatedRecords]_vars

\* onEdit was called with the id of a row of the list, not with the id of the
\* displayed record, and the list is still shown.
C16_Witness ==
  /\ Len(editSignals) = 1
  /\ editSignals[1] # currentRecord.id
  /\ \E i \in 1..Len(relatedRecords) : relatedRecords[i] = editSignals[1]
  /\ closeSignals = 1
  /\ detailFetches = EmptyBag

\* The session is anonymous: no user in memory, nothing in storage, no default header.
Anonymous ==
  /\ user = NoUser
  /\ storedToken = "" /\ storedRole = ""
  /\ defaultAuthorization = NoAuthorization

\* The session is authenticated: memory and storage hold the same token and role.
Authenticated ==
  /\ user.present
  /\ storedToken = user.token /\ storedRole = user.role

\* C17: when POST /auth/login answers {access_token, role}, right after login()
\* the in-memory user, the storage and the default Authorization header of the API
\* client agree: the user and the storage hold that token and role, and the header
\* is `Bearer <token>`.
C17_LoginEstablishesSession ==
  [][\A req \in BagToSet(requests) :
       LoginSucceeded(req) =>
         LET answer == Accounts[req.passcode]
         IN /\ user' = UserOf(answer.access_token, answer.role)
            /\ storedToken' = answer.access_token
            /\ storedRole' = answer.role
            /\ defaultAuthorization' = Bearer(answer.access_token)
            /\ defaultAuthorization'.token = user'.token
            /\ loginResult' = "resolved"]_vars

\* A login has just established the sales session.
C17_Witness ==
  /\ loginResult = "resolved"
  /\ user = UserOf("token-s", "sales")
  /\ storedToken = "token-s" /\ storedRole = "sales"
  /\ defaultAuthorization = Bearer("token-s")

\* A call other than login is answered 401.
ApiRejected == \E req \in BagToSet(requests) : ApiFailed(req, StatusError(401, ""))

C18_SessionEndsAtReload ==
  [][/\ (Authenticated /\ Logout) => Anonymous'
     /\ (Authenticated /\ ApiRejected) =>
          /\ storedToken' = "" /\ storedRole' = ""
          /\ navigating'
          /\ user' = user /\ defaultAuthorization' = defaultAuthorization
     /\ (navigating /\ Reload) => (user' = NoUser /\ ~navigating')]_vars

PasscodeRejected(detail) ==
  \E req \in BagToSet(requests) : LoginFailed(req, StatusError(401, detail))

AllRejected ==
  /\ navigating
  /\ requests = EmptyBag
  /\ apiResult = "rejected"
  /\ loginResult = "none"

C21_EachRejectionClearsStorage ==
  /\ [][ApiRejected =>
          /\ storedToken' = "" /\ storedRole' = ""
          /\ navigating'
          /\ apiResult' = "rejected"
          /\ BagCardinality(requests') = BagCardinality(requests) - 1]_vars
  /\ [](AllRejected => (storedToken = "" /\ storedRole = ""))

C21_SecondRequestPending ==
  /\ navigating
  /\ storedToken = ""
  /\ apiResult = "rejected"
  /\ \E req \in BagToSet(requests) :
       req.kind = "api" /\ req.authorization = Bearer(user.token)

\* calculateWarrantyStatus was called exactly 400 days after the delivery date.
Called400DaysAfterDelivery ==
  /\ WarrantyCalledOnDate
  /\ today = currentRecord.date_of_delivery.time + 400 * TicksPerDay

\* The year that starts at the delivery date contains a 29 February.
WarrantyYearHasLeapDay ==
  LET from == LocalCivil(currentRecord.date_of_delivery.time)
  IN IF from.m <= 2 THEN IsLeap(from.y) ELSE IsLeap(from.y + 1)

\* C22: for a delivery date exactly 400 days before now the status is
\* out_of_warranty and the reported day count is 35, for every now.
C22_FourHundredDaysGives35 ==
  Called400DaysAfterDelivery =>
    warranty.status = "out_of_warranty" /\ warranty.daysRemaining = Num(35)

\* C22 as the code has it: the status is out_of_warranty and the day count is 400
\* less the length of the calendar year that starts at the delivery date: 35, or
\* 34 when that year contains a 29 February.
C22_FourHundredDaysLessTheYear ==
  Called400DaysAfterDelivery =>
    /\ warranty.status = "out_of_warranty"
    /\ warranty.daysRemaining = Num(IF WarrantyYearHasLeapDay THEN 34 ELSE 35)

\* A call 400 days after a delivery on 29 February reports 34 days.
C22_Witness ==
  /\ Called400DaysAfterDelivery
  /\ LocalCivil(currentRecord.date_of_delivery.time).m = 2
  /\ LocalCivil(currentRecord.date_of_delivery.time).d = 29
  /\ warranty.status = "out_of_warranty"
  /\ warranty.daysRemaining = Num(34)

\* A call 400 days after a delivery whose year has no 29 February reports 35 days.
C22_PlainYearGives35 ==
  /\ Called400DaysAfterDelivery
  /\ ~WarrantyYearHasLeapDay
  /\ warranty.daysRemaining = Num(35)

\* calculateWarrantyStatus was called on a record without a usable delivery date.
WarrantyCalledWithoutDate ==
  warranty.status # "not_called" /\ currentRecord.date_of_delivery.kind \in {"absent", "unparseable"}

\* C23: when the delivery date is absent or cannot be parsed, the result has no
\* expiry date and its status is neither in_warranty nor expiring_soon.
C23_NoDateNoWarranty ==
  WarrantyCalledWithoutDate =>
    /\ warranty.expiry = NullDate
    /\ warranty.status \notin {"in_warranty", "expiring_soon"}

\* What holds instead: an absent date gives out_of_warranty without expiry; a
\* date that cannot be parsed gives in_warranty with an Invalid Date and NaN days.
C23_AbsentOnly ==
  WarrantyCalledWithoutDate =>
    IF currentRecord.date_of_delivery.kind = "absent"
      THEN warranty = [status |-> "out_of_warranty", expiry |-> NullDate, daysRemaining |-> Num(0)]
      ELSE warranty = [status |-> "in_warranty", expiry |-> InvalidDate, daysRemaining |-> NaN]

\* The case C23 fails on: a delivery date that cannot be parsed, classified as
\* in_warranty.
C23_UnparseableInWarranty ==
  /\ warranty.status = "in_warranty"
  /\ currentRecord.date_of_delivery.kind = "unparseable"
  /\ warranty.expiry = InvalidDate
  /\ warranty.daysRemaining = NaN

\* The storage holds a token and a role, or neither, and the mount effect has run.
SessionSettled ==
  /\ ~isLoading
  /\ storedToken = "" <=> storedRole = ""

\* C24: in every reachable state the holders of the session agree: there is a
\* user in memory exactly when the storage holds a token, and then both hold the
\* same token and role.
C24_SessionHoldersAgree ==
  SessionSettled =>
    /\ user.present <=> storedToken # ""
    /\ user.present => (user.token = storedToken /\ user.role = storedRole)

\* What holds instead: a user in memory and a token in storage are never of
\* different sessions, and a token in storage has its user in memory; a user in
\* memory can be without token in storage.
C24_NeverTwoSessions ==
  SessionSettled =>
    /\ storedToken # "" => user.present
    /\ (user.present /\ storedToken # "") =>
         (user.token = storedToken /\ user.role = storedRole)

\* A request sent under an earlier session is still in flight after a later login.
C24_StaleRequestInFlight ==
  /\ loginResult = "resolved"
  /\ Authenticated
  /\ \E req \in BagToSet(requests) :
       /\ req.kind = "api"
       /\ req.authorization.scheme = "Bearer"
       /\ req.authorization.token # user.token

\* The case C24 fails on: after a successful login a 401 was answered; the user of
\* the login is in memory and the storage holds no token.
C24_UserWithoutStoredToken ==
  /\ loginResult = "resolved"
  /\ apiResult = "rejected"
  /\ user.present
  /\ storedToken = "" /\ storedRole = ""
  /\ defaultAuthorization = Bearer(user.token)

\* The Authorization a request carries when the storage decides it at send time.
AuthorizationOfStorage == IF storedToken # "" THEN Bearer(storedToken) ELSE NoAuthorization

\* The requests sent by a step.
SentBy(before, after) == {req \in BagToSet(after) : CopiesIn(req, after) > CopiesIn(req, before)}

\* C25: every request the API client sends carries a bearer Authorization header
\* exactly when the storage holds a token at that time, and the header carries
\* that token; after a 401 removed the token no later request carries it.
C25_HeaderFollowsStorage ==
  [][\A req \in SentBy(requests, requests') :
       req.authorization = AuthorizationOfStorage]_vars

\* What holds instead: a request carries the stored token when there is one, and
\* otherwise whatever the default header of the client holds.
C25_HeaderFollowsStorageOrDefault ==
  [][\A req \in SentBy(requests, requests') :
       req.authorization =
         IF storedToken # "" THEN Bearer(storedToken) ELSE defaultAuthorization]_vars

\* The case C25 fails on: a 401 removed the token from storage, and a request sent
\* after it is in flight with the rejected token, taken from the default header.
C25_RejectedTokenSentAgain ==
  /\ navigating
  /\ storedToken = ""
  /\ apiResult = "rejected"
  /\ BagCardinality(requests) = 1
  /\ loginResult = "none"
  /\ \E req \in BagToSet(requests) :
       req.kind = "api" /\ req.authorization = defaultAuthorization
         /\ req.authorization.scheme = "Bearer"

\* C26: the loading flag is true whenever a history request is in flight: when two
\* requests overlap, the completion of the earlier one does not set loading to
\* false while the later one is pending.
C26_LoadingWhileFetching ==
  historyFetches # EmptyBag => loading

\* What holds instead: loading is true only while a request is in flight, and
\* every completion sets it to false, whatever else is in flight.
C26_LoadingOnlyWhileFetching ==
  /\ [](loading => historyFetches # EmptyBag)
  /\ [][BagCardinality(historyFetches') < BagCardinality(historyFetches) => ~loading']_vars

\* The case C26 fails on: the request for the record on display is in flight and
\* loading is false, because an earlier request completed.
C26_PendingButNotLoading ==
  /\ isOpen
  /\ ~loading
  /\ historyFetches = SetToBag({[phone |-> currentRecord.client_phone, id |-> currentRecord.id]})

\* C28: while the modal is closed the history list is empty: closing clears it,
\* and a request that was sent while the modal was open and is answered after it
\* was closed does not fill it again.
C28_ClosedModalHasNoHistory ==
  ~isOpen => relatedRecords = <<>>

\* What holds instead: the step that closes the modal leaves the list empty.
C28_ClosingClearsHistory ==
  [][(isOpen /\ ~isOpen') => relatedRecords' = <<>>]_vars

\* The case C28 fails on: the modal is closed, nothing is in flight, and the list
\* holds the history of the record on display, answered after the modal closed.
C28_HistoryShownWhileClosed ==
  /\ ~isOpen
  /\ relatedRecords # <<>>
  /\ historyOf = currentRecord.id
  /\ historyFetches = EmptyBag

\* C27: every change of the filters sends its own summary request; once every
\* request is answered, in whatever order, and the one for the current filters was
\* answered with data, the summary on display is that answer; a failed request
\* leaves the summary on display as it was and sets loading to false.
C27_LatestFiltersShown ==
  /\ []((summaryFetches = {} /\ latestAnswered) =>
          summary = SummaryFor(SummaryParams(filters)))
  /\ [][(filters' # filters \/ issued' # issued) =>
          /\ issued' = issued + 1
          /\ \A req \in summaryFetches : req.seq # issued'
          /\ summaryFetches' =
               summaryFetches \cup {[seq |-> issued', params |-> SummaryParams(filters')]}]_vars
  /\ [][\A req \in summaryFetches : \A error \in SummaryErrors :
          SummaryFailure(req, error) => (summary' = summary /\ ~summaryLoading')]_vars

\* The filters were changed several times, one request failed, every request is
\* answered, and the summary of the current filters is on display.
C27_Witness ==
  /\ issued >= 3
  /\ summaryFetches = {}
  /\ latestAnswered
  /\ filters.zone = "North" /\ filters.date_from = "2025-01-01"
  /\ summary = SummaryFor(SummaryParams(filters))
  /\ ~summaryLoading
  /\ lastAlert # ""

\* A summary request is never sent while another is in flight: the inputs are not
\* rendered while loading is true.
C27_OneFetchAtATime ==
  /\ Cardinality(summaryFetches) <= 1
  /\ summaryLoading <=> summaryFetches # {}
========================================================================
